---- MODULE Spec2Model ----
(***************************************************************************)
(* Model of the DAIM-MVP pipeline: AudioProcessor.sync_to_fps              *)
(* (audio_processor.py), DanceGenerator (generator.py) and BVHExporter     *)
(* (bvh_export.py).  Three specifications, one per component:              *)
(*   SpecSync    the feature synchronizer, as a function of its inputs     *)
(*   SpecGen     the life cycle of DanceGenerator objects                  *)
(*   SpecExport  BVHExporter construction and export                       *)
(*   SpecSynth   the values BaselineGenerator.generate computes            *)
(* Feature VALUES are not modelled as numbers: a stream is its shape, a    *)
(* value written to the file is the array cell it was read from, and a     *)
(* generated motion value is the expression the generator computes it by.  *)
(***************************************************************************)
EXTENDS Integers, Sequences, FiniteSets

VARIABLES processor, sync, gen, genCall, exporter, file, exportCall,
          synth, walk, app

vars == <<processor, sync, gen, genCall, exporter, file, exportCall,
          synth, walk, app>>

\* ------------------------------------------------------------------------
\* Bounds of the model
\* ------------------------------------------------------------------------
MaxN == 64          \* native mel column counts 0..MaxN
MaxOther == 3       \* chroma / onset column counts 0..MaxOther, or the mel count
MaxFrames == 2      \* motion frames 0..MaxFrames
MaxT == 3           \* synced feature columns given to generate: 0..MaxT
MaxSynthT == 2      \* frames and onset entries of a generate call whose values are kept

SampleRates == {48000, 22050}
HopLengths == {512}
TargetFpsValues == {30, 60, 240}

None == "None"

\* ------------------------------------------------------------------------
\* AudioProcessor  (audio_processor.py)
\* ------------------------------------------------------------------------

\* AudioProcessor.__init__ defaults
DefaultTargetFps == 60
DefaultSampleRate == 48000

AudioProcessorInit(target_fps, sample_rate) ==
    [target_fps |-> target_fps, sample_rate |-> sample_rate]

\* floor(a / b) for a >= 0, b > 0: int() of a non-negative float truncates.
\* On the domain of this model (N <= 200, the rates above) the float result
\* of (N / (sr / hop)) * fps truncates to the same integer as the exact
\* quotient.
IntTrunc(a, b) == a \div b

\* num_motion_frames = int((N / (audio_sr / hop_length)) * target_fps)
num_motion_frames(N, audio_sr, hop_length, target_fps) ==
    IntTrunc(N * hop_length * target_fps, audio_sr)

\* scipy.interpolate.interp1d(kind='linear') refuses arrays shorter than its
\* minimum length: 1 entry in current releases, 2 in old ones.  Which one is
\* installed is not fixed by the repository.
Interp1dMinEntries == {1, 2}

\* np.linspace(0, 1, n): its largest point is 1 for n >= 2, 0 for n = 1;
\* empty for n = 0 (encoded -1: below every sample point).
LinspaceMax(n) == IF n >= 2 THEN 1 ELSE IF n = 1 THEN 0 ELSE -1

\* _resample_feature that keeps the width of its input
resample_feature_keep(rows, current_length, target_length, minval) ==
    IF rows > 0 /\ current_length < minval
      THEN [raised |-> TRUE, rows |-> 0, cols |-> 0]
    ELSE IF rows > 0 /\ LinspaceMax(target_length) > LinspaceMax(current_length)
      THEN [raised |-> TRUE, rows |-> 0, cols |-> 0]
    ELSE [raised |-> FALSE, rows |-> rows, cols |-> current_length]

\* _resample_feature(feature, target_length) on a feature of `rows` rows and
\* current_length columns.  interp1d raises ValueError when it gets fewer
\* than minval points, and its call raises ValueError (bounds_error) when a
\* target point lies above the last sample point.
resample_feature(rows, current_length, target_length, minval) ==
    IF rows > 0 /\ current_length < minval
      THEN [raised |-> TRUE, rows |-> 0, cols |-> 0]
    ELSE IF rows > 0 /\ LinspaceMax(target_length) > LinspaceMax(current_length)
      THEN [raised |-> TRUE, rows |-> 0, cols |-> 0]
    ELSE [raised |-> FALSE, rows |-> rows, cols |-> target_length]

MelRows == 128
ChromaRows == 12

\* No array: the empty tuple (a returned array is the tuple of its shape).
NoArray == <<>>
NoStreams == [mel |-> NoArray, chroma |-> NoArray, onset |-> NoArray]

\* sync_to_fps(mel, chroma, onset, audio_sr, hop_length): the three streams
\* are resampled in turn to the frame count computed from mel alone; the
\* first ValueError propagates and nothing is returned.
sync_to_fps(self, n_mel, n_chroma, n_onset, audio_sr, hop_length, minval) ==
    LET T == num_motion_frames(n_mel, audio_sr, hop_length, self.target_fps)
        mel_resampled == resample_feature(MelRows, n_mel, T, minval)
        chroma_resampled == resample_feature(ChromaRows, n_chroma, T, minval)
        onset_resampled == resample_feature(1, n_onset, T, minval)
    IN IF mel_resampled.raised \/ chroma_resampled.raised \/ onset_resampled.raised
         THEN [status |-> "ValueError", streams |-> NoStreams]
         ELSE [status |-> "ok",
               streams |-> [mel |-> <<mel_resampled.rows, mel_resampled.cols>>,
                            chroma |-> <<chroma_resampled.rows, chroma_resampled.cols>>,
                            \* .squeeze(0): a vector of that length
                            onset |-> <<onset_resampled.cols>>]]

\* ------------------------------------------------------------------------
\* DanceGenerator  (generator.py)
\* ------------------------------------------------------------------------
Gens == {"g1", "g2"}

NumJoints == 24       \* config['num_joints']
GeneratedFps == 60    \* the 'fps' BaselineGenerator.generate returns

NoMotion == [present |-> FALSE, num_frames |-> 0, rotations |-> NoArray,
             translations |-> NoArray, fps |-> 0]

\* BaselineGenerator.generate that takes the frame count from onset
BaselineGenerator_generate_onset(mel_cols, onset_len) ==
    [present |-> TRUE, num_frames |-> onset_len,
     rotations |-> <<onset_len, NumJoints, 3>>,
     translations |-> <<onset_len, 3>>,
     fps |-> GeneratedFps]

\* BaselineGenerator.generate(audio_features): arrays of num_frames rows,
\* num_frames being the width of audio_features['mel']; a frame whose index
\* is past the end of onset reads intensity 0.
BaselineGenerator_generate(mel_cols, onset_len) ==
    [present |-> TRUE, num_frames |-> mel_cols,
     rotations |-> <<mel_cols, NumJoints, 3>>,
     translations |-> <<mel_cols, 3>>,
     fps |-> GeneratedFps]

\* A generator object: never constructed, or its fields.  load_returned is a
\* history field of the model: some load_model call on the object has
\* returned normally.
NoGen == [exists |-> FALSE, model |-> None, loaded |-> FALSE, load_returned |-> FALSE]

\* load_model(model_path): _create_baseline_model() in the try block; if it
\* raises, the except block calls it again, and if that raises too the
\* exception leaves load_model with the fields as they were.
load_model(self, create_raises, fallback_raises) ==
    IF ~create_raises
      THEN [raised |-> FALSE,
            self |-> [self EXCEPT !.model = "BaselineGenerator", !.loaded = TRUE,
                                  !.load_returned = TRUE]]
    ELSE IF ~fallback_raises
      THEN [raised |-> FALSE,
            self |-> [self EXCEPT !.model = "BaselineGenerator", !.loaded = TRUE,
                                  !.load_returned = TRUE]]
    ELSE [raised |-> TRUE, self |-> self]

\* DanceGenerator.__init__(model_path): the fields, then load_model when a
\* model_path is given; an exception of load_model leaves no object.
DanceGeneratorInit(with_model_path, create_raises, fallback_raises) ==
    LET fresh == [exists |-> TRUE, model |-> None, loaded |-> FALSE,
                  load_returned |-> FALSE]
        r == load_model(fresh, create_raises, fallback_raises)
    IN IF ~with_model_path THEN fresh
       ELSE IF r.raised THEN NoGen
       ELSE r.self

\* generate with the loaded check dropped
generate_unguarded(self, mel_cols, onset_len) ==
    IF self.model = None
      THEN [status |-> "AttributeError", motion |-> NoMotion]
      ELSE [status |-> "ok", motion |-> BaselineGenerator_generate(mel_cols, onset_len)]

\* DanceGenerator.generate(audio_features)
generate(self, mel_cols, onset_len) ==
    IF ~self.loaded
      THEN [status |-> "RuntimeError", motion |-> NoMotion]
    ELSE IF self.model = None
      THEN [status |-> "AttributeError", motion |-> NoMotion]
    ELSE [status |-> "ok", motion |-> BaselineGenerator_generate(mel_cols, onset_len)]

NoGenCall == [made |-> FALSE, g |-> None, load_returned |-> FALSE,
              mel_cols |-> 0, onset_len |-> 0,
              status |-> None, motion |-> NoMotion]

\* A caller constructs generator g.
Construct(g) ==
    /\ ~gen[g].exists
    /\ \E with_model_path \in BOOLEAN, create_raises \in BOOLEAN,
          fallback_raises \in BOOLEAN :
         gen' = [gen EXCEPT ![g] = DanceGeneratorInit(with_model_path, create_raises,
                                                       fallback_raises)]
    /\ UNCHANGED <<processor, sync, genCall, exporter, file, exportCall, synth, walk, app>>

\* A caller invokes g.load_model(path).
LoadModel(g) ==
    /\ gen[g].exists
    /\ \E create_raises \in BOOLEAN, fallback_raises \in BOOLEAN :
         gen' = [gen EXCEPT ![g] = load_model(gen[g], create_raises, fallback_raises).self]
    /\ UNCHANGED <<processor, sync, genCall, exporter, file, exportCall, synth, walk, app>>

\* A caller invokes g.generate(features) with synced features of mel_cols
\* columns and an onset vector of onset_len entries.
Generate(g) ==
    /\ gen[g].exists
    /\ \E mel_cols \in 0..MaxT, onset_len \in 0..MaxT :
         LET r == generate(gen[g], mel_cols, onset_len)
         IN genCall' = [made |-> TRUE, g |-> g, load_returned |-> gen[g].load_returned,
                        mel_cols |-> mel_cols, onset_len |-> onset_len,
                        status |-> r.status, motion |-> r.motion]
    /\ UNCHANGED <<processor, sync, gen, exporter, file, exportCall, synth, walk, app>>

\* DanceGenerator.convert_to_smpl(motion_data)
convert_to_smpl(motion_data) ==
    [rotations |-> motion_data.rotations, translations |-> motion_data.translations,
     fps |-> motion_data.fps]

\* ------------------------------------------------------------------------
\* BVHExporter  (bvh_export.py)
\* ------------------------------------------------------------------------
JOINT_NAMES ==
    << "Pelvis", "L_Hip", "R_Hip", "Spine1", "L_Knee", "R_Knee", "Spine2",
       "L_Ankle", "R_Ankle", "Spine3", "L_Foot", "R_Foot", "Neck", "L_Collar",
       "R_Collar", "Head", "L_Shoulder", "R_Shoulder", "L_Elbow", "R_Elbow",
       "L_Wrist", "R_Wrist", "L_Hand", "R_Hand" >>

\* PARENT_INDICES[j + 1] is the parent of joint j (joints are 0-based).
PARENT_INDICES ==
    << -1, 0, 0, 0, 1, 2, 3, 4, 5, 6, 7, 8, 9, 9, 9, 12, 13, 14, 16, 17, 18,
       19, 20, 21 >>

\* _get_joint_offset, in hundredths of a metre.
JOINT_OFFSETS ==
    << <<0, 0, 0>>, <<10, -5, 0>>, <<-10, -5, 0>>, <<0, 10, 0>>, <<0, -40, 0>>,
       <<0, -40, 0>>, <<0, 15, 0>>, <<0, -40, 0>>, <<0, -40, 0>>, <<0, 15, 0>>,
       <<0, -10, 10>>, <<0, -10, 10>>, <<0, 15, 0>>, <<15, 5, 0>>, <<-15, 5, 0>>,
       <<0, 15, 0>>, <<20, 0, 0>>, <<-20, 0, 0>>, <<25, 0, 0>>, <<-25, 0, 0>>,
       <<25, 0, 0>>, <<-25, 0, 0>>, <<10, 0, 0>>, <<-10, 0, 0>> >>

get_joint_offset(joint_idx) ==
    IF joint_idx + 1 \in DOMAIN JOINT_OFFSETS THEN JOINT_OFFSETS[joint_idx + 1]
    ELSE <<0, 0, 0>>

\* f"{x:.6f}" of the quotient num / den (den > 0): the number of millionths,
\* rounded to nearest, a tie to the even neighbour.
Format6(num, den) ==
    LET scaled == num * 1000000
        q == scaled \div den
        r == scaled % den
    IN IF 2 * r > den \/ (2 * r = den /\ q % 2 = 1) THEN q + 1 ELSE q

\* BVHExporter.__init__(fps): frame_time = 1.0 / fps, kept as the quotient.
BVHExporterInit(fps) == [fps |-> fps, frame_time |-> <<1, fps>>]

\* One line of the file.  indent counts two-space units; text lines carry the
\* joint they are about, numbers in n, formatted values in vals.
Line(t, joint, indent, n, vals) ==
    [t |-> t, joint |-> joint, indent |-> indent, n |-> n, vals |-> vals]

\* children in descending order
children_desc(joint_idx) ==
    LET n == Len(PARENT_INDICES)
    IN SelectSeq([i \in 1..n |-> n - i], LAMBDA i : PARENT_INDICES[i + 1] = joint_idx)

\* [i for i, parent in enumerate(PARENT_INDICES) if parent == joint_idx]
children(joint_idx) ==
    SelectSeq([i \in 1..Len(PARENT_INDICES) |-> i - 1],
              LAMBDA i : PARENT_INDICES[i + 1] = joint_idx)

RECURSIVE write_joint(_, _)
RECURSIVE write_children(_, _, _)

\* _write_joint that closes the joint's block before it writes the children
write_joint_flat(joint_idx, indent_level) ==
    LET kids == children(joint_idx)
        offset == get_joint_offset(joint_idx)
    IN << Line(IF joint_idx = 0 THEN "ROOT" ELSE "JOINT", joint_idx, indent_level, 0,
               <<JOINT_NAMES[joint_idx + 1]>>),
          Line("{", joint_idx, indent_level, 0, <<>>),
          Line("OFFSET", joint_idx, indent_level + 1, 0,
               <<Format6(offset[1], 100), Format6(offset[2], 100), Format6(offset[3], 100)>>),
          Line("CHANNELS", joint_idx, indent_level + 1,
               IF joint_idx = 0 THEN 6 ELSE 3, <<>>) >>
       \o (IF kids # <<>>
             THEN <<>>
             ELSE << Line("End Site", joint_idx, indent_level + 1, 0, <<>>),
                     Line("{", joint_idx, indent_level + 1, 0, <<>>),
                     Line("OFFSET", joint_idx, indent_level + 2, 0, <<0, 0, 0>>),
                     Line("}", joint_idx, indent_level + 1, 0, <<>>) >>)
       \o << Line("}", joint_idx, indent_level, 0, <<>>) >>
       \o write_children(kids, 1, indent_level + 1)

\* the for loop of _write_joint over children[k..]
write_children(kids, k, indent_level) ==
    IF k > Len(kids) THEN <<>>
    ELSE write_joint(kids[k], indent_level) \o write_children(kids, k + 1, indent_level)

\* _write_joint(file, joint_idx, indent_level): the lines it writes
write_joint(joint_idx, indent_level) ==
    LET kids == children(joint_idx)
        offset == get_joint_offset(joint_idx)
    IN << Line(IF joint_idx = 0 THEN "ROOT" ELSE "JOINT", joint_idx, indent_level, 0,
               <<JOINT_NAMES[joint_idx + 1]>>),
          Line("{", joint_idx, indent_level, 0, <<>>),
          Line("OFFSET", joint_idx, indent_level + 1, 0,
               <<Format6(offset[1], 100), Format6(offset[2], 100), Format6(offset[3], 100)>>),
          Line("CHANNELS", joint_idx, indent_level + 1,
               IF joint_idx = 0 THEN 6 ELSE 3, <<>>) >>
       \o (IF kids # <<>>
             THEN write_children(kids, 1, indent_level + 1)
             ELSE << Line("End Site", joint_idx, indent_level + 1, 0, <<>>),
                     Line("{", joint_idx, indent_level + 1, 0, <<>>),
                     Line("OFFSET", joint_idx, indent_level + 2, 0, <<0, 0, 0>>),
                     Line("}", joint_idx, indent_level + 1, 0, <<>>) >>)
       \o << Line("}", joint_idx, indent_level, 0, <<>>) >>

\* _write_hierarchy(file)
write_hierarchy == <<Line("HIERARCHY", -1, 0, 0, <<>>)>> \o write_joint(0, 0)

\* A formatted value of a frame line is the array cell it was read from.
Cell(src, frame, joint, axis) ==
    [src |-> src, frame |-> frame, joint |-> joint, axis |-> axis]

RECURSIVE joint_cells(_, _, _)
\* the joint loop of _write_motion: joints joint_idx .. num_joints - 1
joint_cells(frame_idx, joint_idx, num_joints) ==
    IF joint_idx >= num_joints THEN <<>>
    ELSE << Cell("motion_data", frame_idx, joint_idx, 0),
            Cell("motion_data", frame_idx, joint_idx, 1),
            Cell("motion_data", frame_idx, joint_idx, 2) >>
         \o joint_cells(frame_idx, joint_idx + 1, num_joints)

\* one frame line: translations[frame_idx], then every joint of motion_data
frame_line(frame_idx, num_joints, trans_src) ==
    Line("frame", -1, 0, frame_idx,
         << Cell(trans_src, frame_idx, -1, 0), Cell(trans_src, frame_idx, -1, 1),
            Cell(trans_src, frame_idx, -1, 2) >>
         \o joint_cells(frame_idx, 0, num_joints))

\* _write_motion with the frame loop one short
write_motion_short(self, num_frames, num_joints, trans_src, trans_rows) ==
    LET written == IF trans_rows < num_frames - 1 THEN trans_rows ELSE num_frames - 1
    IN [raised |-> trans_rows < num_frames - 1,
        lines |-> << Line("MOTION", -1, 0, 0, <<>>),
                     Line("Frames", -1, 0, num_frames, <<>>),
                     Line("Frame Time", -1, 0,
                          Format6(self.frame_time[1], self.frame_time[2]), <<>>) >>
                  \o [i \in 1..(IF written > 0 THEN written ELSE 0)
                        |-> frame_line(i - 1, num_joints, trans_src)]]

\* _write_motion(file, motion_data, translations): the header lines, then a
\* line per frame; translations[frame_idx] raises IndexError at the first
\* frame translations has no row for, after the lines before it were written.
write_motion(self, num_frames, num_joints, trans_src, trans_rows) ==
    LET written == IF trans_rows < num_frames THEN trans_rows ELSE num_frames
    IN [raised |-> trans_rows < num_frames,
        lines |-> << Line("MOTION", -1, 0, 0, <<>>),
                     Line("Frames", -1, 0, num_frames, <<>>),
                     Line("Frame Time", -1, 0,
                          Format6(self.frame_time[1], self.frame_time[2]), <<>>) >>
                  \o [i \in 1..written |-> frame_line(i - 1, num_joints, trans_src)]]

NoFile == [exists |-> FALSE, lines |-> <<>>]

\* export that refuses a joint count other than 24
export_strict(self, motion_shape, translations_rows, writable) ==
    IF motion_shape[2] # 24
      THEN [status |-> "ValueError", warned |-> FALSE, file |-> NoFile]
    ELSE IF ~writable
      THEN [status |-> "OSError", warned |-> FALSE, file |-> NoFile]
    ELSE LET m == write_motion(self, motion_shape[1], motion_shape[2],
                               IF translations_rows < 0 THEN "zeros" ELSE "translations",
                               IF translations_rows < 0 THEN motion_shape[1]
                               ELSE translations_rows)
         IN [status |-> IF m.raised THEN "IndexError" ELSE "ok", warned |-> FALSE,
             file |-> [exists |-> TRUE, lines |-> write_hierarchy \o m.lines]]

\* export(motion_data, output_path, translations): motion_shape is
\* motion_data.shape, translations_rows the rows of translations (-1: None,
\* replaced by zeros of num_frames rows); open() raises OSError on a path
\* that cannot be written, before anything is written.
export(self, motion_shape, translations_rows, writable) ==
    LET num_frames == motion_shape[1]
        num_joints == motion_shape[2]
        warned == num_joints # 24
        trans_src == IF translations_rows < 0 THEN "zeros" ELSE "translations"
        trans_rows == IF translations_rows < 0 THEN num_frames ELSE translations_rows
        m == write_motion(self, num_frames, num_joints, trans_src, trans_rows)
    IN IF ~writable
         THEN [status |-> "OSError", warned |-> warned, file |-> NoFile]
         ELSE [status |-> IF m.raised THEN "IndexError" ELSE "ok", warned |-> warned,
               file |-> [exists |-> TRUE, lines |-> write_hierarchy \o m.lines]]

JointCounts == {20, 23, 24, 25}
ExporterFpsValues == {24, 30, 60}

\* The arguments of an export call that has not run yet; motion_fps is the
\* 'fps' that came with the motion (0: a bare array, which has none).
ExportArgs(motion_shape, translations_rows, writable, motion_fps) ==
    [done |-> FALSE, motion_shape |-> motion_shape,
     translations_rows |-> translations_rows, writable |-> writable,
     motion_fps |-> motion_fps, status |-> None, warned |-> FALSE]

\* generate_dance, step 3: what the request handler passes to export for a
\* motion the generator returned.
ExportArgsOfMotion(motion, writable) ==
    LET smpl_motion == convert_to_smpl(motion)
    IN ExportArgs(smpl_motion.rotations, smpl_motion.translations[1], writable,
                  smpl_motion.fps)

\* The caller's export call runs to its return or its exception.
Export ==
    /\ ~exportCall.done
    /\ LET r == export(exporter, exportCall.motion_shape, exportCall.translations_rows,
                       exportCall.writable)
       IN /\ exportCall' = [exportCall EXCEPT !.done = TRUE, !.status = r.status,
                                              !.warned = r.warned]
          /\ file' = r.file
    /\ UNCHANGED <<processor, sync, gen, genCall, exporter, synth, walk, app>>

NoExporter == BVHExporterInit(60)

\* ------------------------------------------------------------------------
\* BaselineGenerator.generate, the values  (generator.py)
\* ------------------------------------------------------------------------
\* A motion value is kept as the expression that computes it,
\*   c + a * f(times * (pi_mult * pi * t * tempo / div) + shift),
\* f being sin, or |sin| when abs is set; c and a in hundredths, t the
\* quotient <<frame_idx, 60>> and shift one of "0", "0.5", "pi".
SinExpr(c, a, abs, times, pi_mult, t, tempo, div, shift) ==
    [c |-> c, a |-> a, abs |-> abs, times |-> times, pi_mult |-> pi_mult, t |-> t,
     tempo |-> tempo, div |-> div, shift |-> shift]

\* a number that is no function of the frame: 0.0 here
ConstExpr(c) == SinExpr(c, 0, FALSE, 0, 0, <<0, 1>>, 0, 1, "0")

\* An array cell: its expression and the factor <<n, d>> it has been
\* multiplied by since.
Value(expr) == [expr |-> expr, scale |-> <<1, 1>>]

Times(cell, factor) ==
    [cell EXCEPT !.scale = <<cell.scale[1] * factor[1], cell.scale[2] * factor[2]>>]

\* np.zeros((num_frames, num_joints, 3)) and np.zeros((num_frames, 3))
ZeroRotations(num_frames, num_joints) ==
    [f \in 0..(num_frames - 1) |->
       [j \in 0..(num_joints - 1) |-> [x \in 0..2 |-> Value(ConstExpr(0))]]]

ZeroTranslations(num_frames) ==
    [f \in 0..(num_frames - 1) |-> [x \in 0..2 |-> Value(ConstExpr(0))]]

\* t = frame_idx / 60.0
frame_time_of(frame_idx) == <<frame_idx, 60>>

\* the three assignments to translations[frame_idx, :]
frame_translation(frame_idx, tempo) ==
    LET t == frame_time_of(frame_idx)
    IN [x \in 0..2 |->
          Value(CASE x = 0 -> SinExpr(0, 10, FALSE, 1, 2, t, tempo, 60, "0")
                  [] x = 1 -> SinExpr(100, 5, TRUE, 1, 4, t, tempo, 60, "0")
                  [] x = 2 -> ConstExpr(0))]

\* frame_rotations that also turns the neck
frame_rotations_neck(row, frame_idx, tempo) ==
    LET t == frame_time_of(frame_idx)
        Set(r, j, x, e) == [r EXCEPT ![j][x] = Value(e)]
        r1 == Set(row, 3, 1, SinExpr(0, 500, FALSE, 1, 2, t, tempo, 60, "0"))
        r2 == Set(r1, 6, 1, SinExpr(0, 300, FALSE, 1, 2, t, tempo, 60, "0.5"))
        r3 == Set(r2, 16, 0, SinExpr(3000, 3000, FALSE, 1, 2, t, tempo, 60, "0"))
        r4 == Set(r3, 17, 0, SinExpr(3000, 3000, FALSE, 1, 2, t, tempo, 60, "pi"))
        r5 == Set(r4, 16, 2, SinExpr(0, 2000, FALSE, 2, 2, t, tempo, 60, "0"))
        r6 == Set(r5, 17, 2, SinExpr(0, -2000, FALSE, 2, 2, t, tempo, 60, "0"))
        r7 == Set(r6, 18, 0, SinExpr(1000, 2000, TRUE, 1, 2, t, tempo, 60, "0"))
        r8 == Set(r7, 19, 0, SinExpr(1000, 2000, TRUE, 1, 2, t, tempo, 60, "pi"))
        r9 == Set(r8, 1, 2, SinExpr(0, 1000, FALSE, 1, 2, t, tempo, 120, "0"))
        r10 == Set(r9, 2, 2, SinExpr(0, -1000, FALSE, 1, 2, t, tempo, 120, "0"))
    IN Set(r10, 12, 1, SinExpr(0, 500, FALSE, 1, 2, t, tempo, 60, "0"))

\* the assignments to rotations[frame_idx, j, x] of one loop iteration, in
\* the order of the code, on the row as it was (zeros)
frame_rotations(row, frame_idx, tempo) ==
    LET t == frame_time_of(frame_idx)
        Set(r, j, x, e) == [r EXCEPT ![j][x] = Value(e)]
        \* spine
        r1 == Set(row, 3, 1, SinExpr(0, 500, FALSE, 1, 2, t, tempo, 60, "0"))
        r2 == Set(r1, 6, 1, SinExpr(0, 300, FALSE, 1, 2, t, tempo, 60, "0.5"))
        \* shoulders: arm_phase, arm_phase + pi, arm_phase * 2
        r3 == Set(r2, 16, 0, SinExpr(3000, 3000, FALSE, 1, 2, t, tempo, 60, "0"))
        r4 == Set(r3, 17, 0, SinExpr(3000, 3000, FALSE, 1, 2, t, tempo, 60, "pi"))
        r5 == Set(r4, 16, 2, SinExpr(0, 2000, FALSE, 2, 2, t, tempo, 60, "0"))
        r6 == Set(r5, 17, 2, SinExpr(0, -2000, FALSE, 2, 2, t, tempo, 60, "0"))
        \* elbows
        r7 == Set(r6, 18, 0, SinExpr(1000, 2000, TRUE, 1, 2, t, tempo, 60, "0"))
        r8 == Set(r7, 19, 0, SinExpr(1000, 2000, TRUE, 1, 2, t, tempo, 60, "pi"))
        \* hips: hip_phase = 2 * pi * t * tempo / 120
        r9 == Set(r8, 1, 2, SinExpr(0, 1000, FALSE, 1, 2, t, tempo, 120, "0"))
    IN Set(r9, 2, 2, SinExpr(0, -1000, FALSE, 1, 2, t, tempo, 120, "0"))

\* onset values are tenths: beat_intensity = onset[frame_idx] if frame_idx <
\* len(onset) else 0  (onset is a 1-based sequence here)
beat_intensity_of(onset, frame_idx) ==
    IF frame_idx < Len(onset) THEN onset[frame_idx + 1] ELSE 0

\* the test with the threshold included
beat_is_strong_inclusive(beat_intensity) == beat_intensity >= 5

\* if beat_intensity > 0.5
beat_is_strong(beat_intensity) == beat_intensity > 5

\* (1 + 0.2 * beat_intensity), as a quotient
emphasis_factor(beat_intensity) == <<50 + beat_intensity, 50>>

\* the emphasis applied to every frame of the array
emphasize_all(rotations, frame_idx, factor) ==
    [f \in DOMAIN rotations |->
       [j \in DOMAIN rotations[f] |->
          [x \in DOMAIN rotations[f][j] |-> Times(rotations[f][j][x], factor)]]]

\* rotations[frame_idx, :, :] *= factor
emphasize(rotations, frame_idx, factor) ==
    [rotations EXCEPT ![frame_idx] =
       [j \in DOMAIN @ |-> [x \in DOMAIN @[j] |-> Times(@[j][x], factor)]]]

RECURSIVE generate_loop(_, _, _, _, _, _)
\* for frame_idx in range(num_frames): the iterations from frame_idx on, on
\* the arrays as the iterations before left them
generate_loop(frame_idx, num_frames, tempo, onset, rotations, translations) ==
    IF frame_idx >= num_frames
      THEN [rotations |-> rotations, translations |-> translations]
    ELSE LET trans1 == [translations EXCEPT
                          ![frame_idx] = frame_translation(frame_idx, tempo)]
             beat_intensity == beat_intensity_of(onset, frame_idx)
             rot1 == [rotations EXCEPT
                        ![frame_idx] = frame_rotations(@, frame_idx, tempo)]
             rot2 == IF beat_is_strong(beat_intensity)
                       THEN emphasize(rot1, frame_idx, emphasis_factor(beat_intensity))
                       ELSE rot1
         IN generate_loop(frame_idx + 1, num_frames, tempo, onset, rot2, trans1)

NoValues == [rotations |-> <<>>, translations |-> <<>>]

\* DanceGenerator.generate followed through self.model.generate: the status
\* and the returned dict as before, and the contents of its two arrays
generate_values(self, mel_cols, tempo, onset) ==
    LET r == generate(self, mel_cols, Len(onset))
    IN IF r.status # "ok"
         THEN [status |-> r.status, motion |-> r.motion, values |-> NoValues]
         ELSE [status |-> r.status, motion |-> r.motion,
               values |-> generate_loop(0, r.motion.num_frames, tempo, onset,
                                        ZeroRotations(r.motion.num_frames, NumJoints),
                                        ZeroTranslations(r.motion.num_frames))]

Tempos == {90, 120}
OnsetValues == {0, 5, 6}

NoResult == [made |-> FALSE, status |-> None, motion |-> NoMotion, values |-> NoValues]

\* Two generate calls about to be made on one loaded generator, with
\* features of the same width and tempo and the onset vectors A and B.
SynthArgs(mel_cols, tempo, onsetA, onsetB) ==
    [mel_cols |-> mel_cols, tempo |-> tempo,
     onset |-> [A |-> onsetA, B |-> onsetB],
     result |-> [A |-> NoResult, B |-> NoResult]]

NoSynth == SynthArgs(0, 120, <<>>, <<>>)

\* The caller's generate call with onset vector w runs to its return.
SynthGenerate(w) ==
    /\ ~synth.result[w].made
    /\ LET r == generate_values(gen["g1"], synth.mel_cols, synth.tempo, synth.onset[w])
       IN synth' = [synth EXCEPT !.result[w] =
                      [made |-> TRUE, status |-> r.status, motion |-> r.motion,
                       values |-> r.values]]
    /\ UNCHANGED <<processor, sync, gen, genCall, exporter, file, exportCall, walk, app>>

\* the onset vectors of at most MaxSynthT entries
OnsetVectors == UNION {[1..n -> OnsetValues] : n \in 0..MaxSynthT}

\* ------------------------------------------------------------------------
\* _write_hierarchy / _write_joint, statement by statement  (bvh_export.py)
\* ------------------------------------------------------------------------
\* An activation of _write_joint: its arguments, the statement it is at, and
\* the children list with the position of its for loop once computed.
Activation(joint_idx, indent_level) ==
    [joint_idx |-> joint_idx, indent_level |-> indent_level, pc |-> "name",
     kids |-> <<>>, k |-> 1]

\* the statements of _write_joint that write one line, and the statement
\* that follows each
WritePcs == {"name", "open", "offset", "channels", "end1", "end2", "end3", "end4"}

next_pc(pc) ==
    CASE pc = "name" -> "open"
      [] pc = "open" -> "offset"
      [] pc = "offset" -> "channels"
      [] pc = "channels" -> "children"
      [] pc = "end1" -> "end2"
      [] pc = "end2" -> "end3"
      [] pc = "end3" -> "end4"
      [] pc = "end4" -> "close"

\* the line the write statement at pc writes
line_at(a, pc) ==
    LET j == a.joint_idx
        ind == a.indent_level
        offset == get_joint_offset(j)
    IN CASE pc = "name" -> Line(IF j = 0 THEN "ROOT" ELSE "JOINT", j, ind, 0,
                                <<JOINT_NAMES[j + 1]>>)
         [] pc = "open" -> Line("{", j, ind, 0, <<>>)
         [] pc = "offset" -> Line("OFFSET", j, ind + 1, 0,
                                  <<Format6(offset[1], 100), Format6(offset[2], 100),
                                    Format6(offset[3], 100)>>)
         [] pc = "channels" -> Line("CHANNELS", j, ind + 1, IF j = 0 THEN 6 ELSE 3, <<>>)
         [] pc = "end1" -> Line("End Site", j, ind + 1, 0, <<>>)
         [] pc = "end2" -> Line("{", j, ind + 1, 0, <<>>)
         [] pc = "end3" -> Line("OFFSET", j, ind + 2, 0, <<0, 0, 0>>)
         [] pc = "end4" -> Line("}", j, ind + 1, 0, <<>>)

\* the call stack (innermost activation last), the lines written so far
NoWalk == [started |-> FALSE, stack |-> <<>>, out |-> <<>>, done |-> FALSE]

Top == walk.stack[Len(walk.stack)]

SetTop(a) == [walk.stack EXCEPT ![Len(walk.stack)] = a]

\* _write_hierarchy: the HIERARCHY line, then the call _write_joint(file, 0, 0)
WalkStart ==
    /\ ~walk.started
    /\ walk' = [started |-> TRUE, stack |-> <<Activation(0, 0)>>,
                out |-> <<Line("HIERARCHY", -1, 0, 0, <<>>)>>, done |-> FALSE]
    /\ UNCHANGED <<processor, sync, gen, genCall, exporter, file, exportCall, synth, app>>

\* a file.write of the innermost activation
WalkWrite ==
    /\ walk.stack # <<>>
    /\ Top.pc \in WritePcs
    /\ walk' = [walk EXCEPT !.out = Append(@, line_at(Top, Top.pc)),
                            !.stack = SetTop([Top EXCEPT !.pc = next_pc(Top.pc)])]
    /\ UNCHANGED <<processor, sync, gen, genCall, exporter, file, exportCall, synth, app>>

\* children = [...]; if children: ... else: ...
WalkFindChildren ==
    /\ walk.stack # <<>>
    /\ Top.pc = "children"
    /\ LET kids == children(Top.joint_idx)
       IN walk' = [walk EXCEPT !.stack =
                     SetTop([Top EXCEPT !.kids = kids, !.k = 1,
                                        !.pc = IF kids # <<>> THEN "loop" ELSE "end1"])]
    /\ UNCHANGED <<processor, sync, gen, genCall, exporter, file, exportCall, synth, app>>

\* for child_idx in children: self._write_joint(file, child_idx, indent_level + 1)
WalkCallChild ==
    /\ walk.stack # <<>>
    /\ Top.pc = "loop"
    /\ Top.k <= Len(Top.kids)
    /\ walk' = [walk EXCEPT !.stack =
                  Append(SetTop([Top EXCEPT !.k = @ + 1]),
                         Activation(Top.kids[Top.k], Top.indent_level + 1))]
    /\ UNCHANGED <<processor, sync, gen, genCall, exporter, file, exportCall, synth, app>>

\* the for loop has no child left
WalkLoopEnd ==
    /\ walk.stack # <<>>
    /\ Top.pc = "loop"
    /\ Top.k > Len(Top.kids)
    /\ walk' = [walk EXCEPT !.stack = SetTop([Top EXCEPT !.pc = "close"])]
    /\ UNCHANGED <<processor, sync, gen, genCall, exporter, file, exportCall, synth, app>>

\* the closing brace, and the return to the caller; _write_hierarchy returns
\* when the activation of the root does
WalkReturn ==
    /\ walk.stack # <<>>
    /\ Top.pc = "close"
    /\ walk' = [walk EXCEPT
                  !.out = Append(@, Line("}", Top.joint_idx, Top.indent_level, 0, <<>>)),
                  !.stack = SubSeq(@, 1, Len(@) - 1),
                  !.done = Len(walk.stack) = 1]
    /\ UNCHANGED <<processor, sync, gen, genCall, exporter, file, exportCall, synth, app>>

\* ------------------------------------------------------------------------
\* get_generator and the generate request under the threaded server  (app.py)
\* ------------------------------------------------------------------------
\* app.run(threaded=True) handles each request in a thread of its own.
Threads == {"t1", "t2"}

\* The module global dance_generator, and for each request thread: the
\* statement it is at, the object its load_model call is bound to, the value
\* get_generator returned to it, and how its generator.generate call ended.
AppInit(mel_cols) ==
    [dance_generator |-> None,
     pc |-> [t \in Threads |-> "check"],
     self |-> [t \in Threads |-> None],
     generator |-> [t \in Threads |-> None],
     mel_cols |-> mel_cols,
     status |-> [t \in Threads |-> None],
     num_frames |-> [t \in Threads |-> 0]]

NoApp == AppInit([t \in Threads |-> 0])

\* if dance_generator is None:
AppCheck(t) ==
    /\ app.pc[t] = "check"
    /\ app' = [app EXCEPT !.pc[t] = IF app.dance_generator = None THEN "construct"
                                    ELSE "return"]
    /\ UNCHANGED <<processor, sync, gen, genCall, exporter, file, exportCall, synth, walk>>

\* dance_generator = DanceGenerator(): a new object, no model_path, stored in
\* the global
AppConstruct(t) ==
    /\ app.pc[t] = "construct"
    /\ LET g == IF ~gen["g1"].exists THEN "g1" ELSE "g2"
       IN /\ ~gen[g].exists
          /\ gen' = [gen EXCEPT ![g] = DanceGeneratorInit(FALSE, FALSE, FALSE)]
          /\ app' = [app EXCEPT !.dance_generator = g, !.pc[t] = "load_call"]
    /\ UNCHANGED <<processor, sync, genCall, exporter, file, exportCall, synth, walk>>

\* dance_generator.load_model("models/baseline"): the global is read and the
\* method is entered on the object it names
AppLoadCall(t) ==
    /\ app.pc[t] = "load_call"
    /\ app' = [app EXCEPT !.self[t] = app.dance_generator, !.pc[t] = "load_body"]
    /\ UNCHANGED <<processor, sync, gen, genCall, exporter, file, exportCall, synth, walk>>

\* the body of load_model, up to its return
AppLoadBody(t) ==
    /\ app.pc[t] = "load_body"
    /\ gen' = [gen EXCEPT ![app.self[t]] = load_model(gen[app.self[t]], FALSE, FALSE).self]
    /\ app' = [app EXCEPT !.pc[t] = "return"]
    /\ UNCHANGED <<processor, sync, genCall, exporter, file, exportCall, synth, walk>>

\* return dance_generator; generator = get_generator()
AppReturn(t) ==
    /\ app.pc[t] = "return"
    /\ app' = [app EXCEPT !.generator[t] = app.dance_generator, !.pc[t] = "generate"]
    /\ UNCHANGED <<processor, sync, gen, genCall, exporter, file, exportCall, synth, walk>>

\* motion = generator.generate(features, dance_style=style); an exception is
\* caught by generate_dance, which answers 500
AppGenerate(t) ==
    /\ app.pc[t] = "generate"
    /\ LET r == generate(gen[app.generator[t]], app.mel_cols[t], app.mel_cols[t])
       IN app' = [app EXCEPT !.status[t] = r.status,
                             !.num_frames[t] = r.motion.num_frames,
                             !.pc[t] = "done"]
    /\ UNCHANGED <<processor, sync, gen, genCall, exporter, file, exportCall, synth, walk>>


\* The arguments of a sync_to_fps call that has not run yet.
SyncArgs(n_mel, n_chroma, n_onset, audio_sr, hop_length, minval) ==
    [called |-> FALSE, n_mel |-> n_mel, n_chroma |-> n_chroma, n_onset |-> n_onset,
     audio_sr |-> audio_sr, hop_length |-> hop_length, minval |-> minval,
     status |-> None, streams |-> NoStreams]

\* The caller's sync_to_fps call runs to its return or its exception.
SyncToFps ==
    /\ ~sync.called
    /\ LET r == sync_to_fps(processor, sync.n_mel, sync.n_chroma, sync.n_onset,
                            sync.audio_sr, sync.hop_length, sync.minval)
       IN sync' = [sync EXCEPT !.called = TRUE, !.status = r.status,
                               !.streams = r.streams]
    /\ UNCHANGED <<processor, gen, genCall, exporter, file, exportCall, synth, walk, app>>

\* A processor constructed with some target fps, and one call with feature
\* arrays of some widths about to be made on it.
InitSync ==
    /\ \E f \in TargetFpsValues :
         processor = AudioProcessorInit(f, DefaultSampleRate)
    /\ \E n_mel \in 0..MaxN, sr \in SampleRates, hop \in HopLengths,
          minval \in Interp1dMinEntries :
         \E n_chroma \in (0..MaxOther) \cup {n_mel},
            n_onset \in (0..MaxOther) \cup {n_mel} :
           sync = SyncArgs(n_mel, n_chroma, n_onset, sr, hop, minval)
    /\ gen = [g \in Gens |-> NoGen]
    /\ genCall = NoGenCall
    /\ exporter = NoExporter
    /\ file = NoFile
    /\ exportCall = ExportArgs(<<0, 24, 3>>, -1, TRUE, 0)
    /\ synth = NoSynth
    /\ walk = NoWalk
    /\ app = NoApp

NextSync == SyncToFps

SpecSync == InitSync /\ [][NextSync]_vars

\* No generator constructed yet.
InitGen ==
    /\ processor = AudioProcessorInit(DefaultTargetFps, DefaultSampleRate)
    /\ sync = SyncArgs(0, 0, 0, DefaultSampleRate, 512, 1)
    /\ gen = [g \in Gens |-> NoGen]
    /\ genCall = NoGenCall
    /\ exporter = NoExporter
    /\ file = NoFile
    /\ exportCall = ExportArgs(<<0, 24, 3>>, -1, TRUE, 0)
    /\ synth = NoSynth
    /\ walk = NoWalk
    /\ app = NoApp

NextGen == \E g \in Gens : Construct(g) \/ LoadModel(g) \/ Generate(g)

SpecGen == InitGen /\ [][NextGen]_vars

\* An exporter constructed with some fps, and one export call about to be made
\* on it: of a bare rotations array with or without translations, or of a
\* motion that BaselineGenerator.generate returned.
InitExport ==
    /\ processor = AudioProcessorInit(DefaultTargetFps, DefaultSampleRate)
    /\ sync = SyncArgs(0, 0, 0, DefaultSampleRate, 512, 1)
    /\ gen = [g \in Gens |-> NoGen]
    /\ genCall = NoGenCall
    /\ \E fps \in ExporterFpsValues : exporter = BVHExporterInit(fps)
    /\ file = NoFile
    /\ \/ \E num_frames \in 0..MaxFrames, num_joints \in JointCounts,
             translations_rows \in -1..MaxFrames, writable \in BOOLEAN :
            exportCall = ExportArgs(<<num_frames, num_joints, 3>>, translations_rows,
                                    writable, 0)
       \/ \E T \in 0..MaxFrames, writable \in BOOLEAN :
            exportCall = ExportArgsOfMotion(BaselineGenerator_generate(T, T), writable)
    /\ synth = NoSynth
    /\ walk = NoWalk
    /\ app = NoApp

NextExport == Export

SpecExport == InitExport /\ [][NextExport]_vars

\* ------------------------------------------------------------------------
\* Properties
\* ------------------------------------------------------------------------

\* a / b rounded to nearest, a half rounded up (a >= 0, b > 0)
RoundNearest(a, b) == (2 * a + b) \div (2 * b)

\* The streams of a returned sync_to_fps call all have c columns.
AllStreamsHaveCols(c) ==
    /\ sync.streams.mel = <<MelRows, c>>
    /\ sync.streams.chroma = <<ChromaRows, c>>
    /\ sync.streams.onset = <<c>>

\* C1: for every native column count N >= 2, sync_to_fps returns streams of
\* T = round((N / (sr / hop)) * fps) columns, rounding to nearest.
C1_FrameCountIsRounded ==
    (sync.called /\ sync.n_mel >= 2 /\ sync.status = "ok")
      => AllStreamsHaveCols(RoundNearest(sync.n_mel * sync.hop_length * processor.target_fps,
                                         sync.audio_sr))

\* the frame lines of a file, in order
FrameLines(lines) == SelectSeq(lines, LAMBDA l : l.t = "frame")

\* the joints the HIERARCHY block declares (ROOT and JOINT lines), in order
DeclaredJoints(lines) ==
    LET decl == SelectSeq(lines, LAMBDA l : l.t \in {"ROOT", "JOINT"})
    IN [k \in 1..Len(decl) |-> decl[k].joint]

\* the number of rotation triples on a frame line
Triples(line) == (Len(line.vals) - 3) \div 3

\* C2: on every frame line the k-th rotation triple after the 3 root
\* translation values is the rotation of the k-th joint the HIERARCHY block
\* declares.
C2_RotationsInHierarchyOrder ==
    (exportCall.done /\ file.exists) =>
      \A i \in 1..Len(FrameLines(file.lines)) :
        LET line == FrameLines(file.lines)[i]
            declared == DeclaredJoints(file.lines)
        IN \A k \in 1..Triples(line) :
             k <= Len(declared) =>
               \A a \in 1..3 :
                 /\ line.vals[3 + 3 * (k - 1) + a].src = "motion_data"
                 /\ line.vals[3 + 3 * (k - 1) + a].joint = declared[k]

\* C3: a sync_to_fps call on features of fewer than 2 native columns fails
\* and returns no streams.
C3_TooFewColumnsFail ==
    (sync.called /\ sync.n_mel < 2 /\ sync.n_chroma = sync.n_mel
                 /\ sync.n_onset = sync.n_mel)
      => (sync.status # "ok" /\ sync.streams = NoStreams)

\* C4: a sync_to_fps call on features of 0 native columns returns empty
\* streams (128 x 0, 12 x 0, length 0) and raises nothing.
C4_ZeroColumnsGiveEmptyStreams ==
    (sync.called /\ sync.n_mel = 0 /\ sync.n_chroma = 0 /\ sync.n_onset = 0)
      => (sync.status = "ok" /\ AllStreamsHaveCols(0))

\* C5: the mel, chroma and onset streams a sync_to_fps call returns have the
\* same column count, whatever the native column counts of its inputs.
C5_StreamsShareColumnCount ==
    (sync.called /\ sync.status = "ok") =>
      /\ Len(sync.streams.mel) = 2 /\ Len(sync.streams.chroma) = 2
      /\ Len(sync.streams.onset) = 1
      /\ sync.streams.mel[2] = sync.streams.chroma[2]
      /\ sync.streams.mel[2] = sync.streams.onset[1]

C5_Witness ==
    /\ sync.called /\ sync.status = "ok"
    /\ sync.n_chroma # sync.n_mel /\ sync.n_onset # sync.n_mel
    /\ sync.n_chroma # sync.n_onset
    /\ sync.streams.mel[2] > 0
    /\ sync.streams.mel[2] # sync.n_chroma /\ sync.streams.mel[2] # sync.n_onset

\* C6: generate on a generator on which no load_model call has returned
\* raises the not-loaded error and gives no motion; a generator on which
\* load_model has returned (through its fallback too) is loaded with a model
\* from then on, and every generate on it succeeds.
C6_GenerateNeedsLoadedModel ==
    /\ \A g \in Gens :
         (gen[g].exists /\ gen[g].load_returned)
           => (gen[g].loaded /\ gen[g].model # None)
    /\ genCall.made =>
         IF genCall.load_returned
           THEN /\ genCall.status = "ok"
                /\ genCall.motion.present
                /\ genCall.motion.num_frames = genCall.mel_cols
           ELSE /\ genCall.status = "RuntimeError"
                /\ genCall.motion = NoMotion

C6_Witness ==
    /\ genCall.made /\ genCall.g = "g1" /\ genCall.status = "RuntimeError"
    /\ gen["g1"].load_returned /\ gen["g1"].loaded
    /\ gen["g2"].exists /\ ~gen["g2"].loaded

\* the translations argument of the export call has a row for every frame
TranslationsCoverFrames ==
    \/ exportCall.translations_rows < 0
    \/ exportCall.translations_rows >= exportCall.motion_shape[1]

\* C7: export of motion data whose joint count is not 24 to a writable path
\* warns, does not raise, and writes the HIERARCHY and the MOTION block in
\* full.
C7_MismatchWarnsAndCompletes ==
    (exportCall.done /\ exportCall.motion_shape[2] # 24 /\ exportCall.writable
       /\ TranslationsCoverFrames)
      => /\ exportCall.warned
         /\ exportCall.status = "ok"
         /\ file.exists
         /\ SubSeq(file.lines, 1, Len(write_hierarchy)) = write_hierarchy
         /\ file.lines[Len(write_hierarchy) + 1].t = "MOTION"
         /\ Len(FrameLines(file.lines)) = exportCall.motion_shape[1]
         /\ Len(file.lines) = Len(write_hierarchy) + 3 + exportCall.motion_shape[1]

C7_Witness ==
    /\ exportCall.done /\ exportCall.motion_shape[2] = 20 /\ exportCall.writable
    /\ exportCall.motion_shape[1] = MaxFrames
    /\ exportCall.warned /\ exportCall.status = "ok"
    /\ Len(FrameLines(file.lines)) = MaxFrames

\* the number of channels the HIERARCHY block of a file declares
DeclaredChannels(lines) ==
    LET ch == SelectSeq(lines, LAMBDA l : l.t = "CHANNELS")
        RECURSIVE Sum(_)
        Sum(k) == IF k = 0 THEN 0 ELSE ch[k].n + Sum(k - 1)
    IN Sum(Len(ch))

\* C8: whatever the joint count of the motion data, every frame line written
\* carries 3 + 3 * 24 = 75 values, the number of channels the HIERARCHY
\* block declares.
C8_FrameLinesMatchDeclaredChannels ==
    (exportCall.done /\ file.exists) =>
      \A i \in 1..Len(FrameLines(file.lines)) :
        /\ Len(FrameLines(file.lines)[i].vals) = 75
        /\ Len(FrameLines(file.lines)[i].vals) = DeclaredChannels(file.lines)

\* C9: the file exported for a motion of F >= 0 frames declares Frames: F
\* and has exactly F frame lines, all after the Frame Time line; for F = 0 it
\* declares Frames: 0 and has no frame line, and nothing is raised.
C9_FramesDeclaredAndWritten ==
    (exportCall.done /\ exportCall.writable /\ TranslationsCoverFrames) =>
      LET F == exportCall.motion_shape[1]
          h == Len(write_hierarchy)
      IN /\ exportCall.status = "ok"
         /\ file.exists
         /\ Len(file.lines) = h + 3 + F
         /\ file.lines[h + 2].t = "Frames" /\ file.lines[h + 2].n = F
         /\ file.lines[h + 3].t = "Frame Time"
         /\ \A i \in 1..Len(file.lines) : file.lines[i].t = "frame" <=> i > h + 3
         /\ \A i \in 1..F : file.lines[h + 3 + i].n = i - 1

C9_Witness ==
    /\ exportCall.done /\ exportCall.writable /\ exportCall.status = "ok"
    /\ exportCall.motion_shape[1] = 0
    /\ file.exists
    /\ file.lines[Len(file.lines)].t = "Frame Time"
    /\ file.lines[Len(file.lines) - 1].t = "Frames"
    /\ file.lines[Len(file.lines) - 1].n = 0

\* C10: the Frame Time the exporter writes is 1 / fps of the motion sequence
\* it exports (the fps the synthesizer returned with it), whatever fps the
\* exporter was constructed with.
C10_FrameTimeIsMotionFps ==
    (exportCall.done /\ file.exists /\ exportCall.motion_fps > 0) =>
      \A i \in 1..Len(file.lines) :
        file.lines[i].t = "Frame Time" => file.lines[i].n = Format6(1, exportCall.motion_fps)

\* the lines of a file before its MOTION line: the HIERARCHY block
HierarchyBlock(lines) ==
    IF \E i \in 1..Len(lines) : lines[i].t = "MOTION"
      THEN SubSeq(lines, 1, (CHOOSE i \in 1..Len(lines) : lines[i].t = "MOTION") - 1)
      ELSE lines

\* BraceDepths(L)[i] is the number of blocks open before line i of L
BraceDepths(L) ==
    [i \in 1..(Len(L) + 1) |->
       Cardinality({k \in 1..(i - 1) : L[k].t = "{"})
         - Cardinality({k \in 1..(i - 1) : L[k].t = "}"})]

RECURSIVE TreeDepth(_)
\* the depth of joint j in the tree PARENT_INDICES describes
TreeDepth(j) == IF PARENT_INDICES[j + 1] < 0 THEN 0 ELSE 1 + TreeDepth(PARENT_INDICES[j + 1])

Joints == 0..(Len(PARENT_INDICES) - 1)

\* C11: in the HIERARCHY block every non-root joint's brace block opens and
\* closes strictly inside its parent's block, a joint is opened at the brace
\* depth that is its depth in the parent-index tree, every joint without
\* children contains an End Site block with a zero offset, and the braces
\* balance at the end of the block.
C11_HierarchyWellFormed ==
    (exportCall.done /\ file.exists) =>
      LET L == HierarchyBlock(file.lines)
          depth == BraceDepths(L)
          \* the ROOT / JOINT line of joint j, the line of its opening brace
          \* and the line of the brace that closes it
          NameIdx(j) == CHOOSE i \in 1..Len(L) :
                          L[i].t \in {"ROOT", "JOINT"} /\ L[i].joint = j
          OpenIdx(j) == NameIdx(j) + 1
          CloseIdx(j) == CHOOSE c \in (OpenIdx(j) + 1)..Len(L) :
                           /\ L[c].t = "}"
                           /\ depth[c + 1] = depth[OpenIdx(j)]
                           /\ \A d \in (OpenIdx(j) + 1)..c : depth[d] > depth[OpenIdx(j)]
          IsLeaf(j) == \A c \in Joints : PARENT_INDICES[c + 1] # j
      IN /\ \A i \in 1..(Len(L) + 1) : depth[i] >= 0
         /\ depth[Len(L) + 1] = 0
         /\ \A j \in Joints :
              /\ \E i \in 1..Len(L) : L[i].t \in {"ROOT", "JOINT"} /\ L[i].joint = j
              /\ L[OpenIdx(j)].t = "{"
              /\ \E c \in (OpenIdx(j) + 1)..Len(L) :
                   /\ L[c].t = "}" /\ depth[c + 1] = depth[OpenIdx(j)]
                   /\ \A d \in (OpenIdx(j) + 1)..c : depth[d] > depth[OpenIdx(j)]
              /\ depth[OpenIdx(j)] = TreeDepth(j)
              /\ PARENT_INDICES[j + 1] >= 0 =>
                   /\ OpenIdx(PARENT_INDICES[j + 1]) < NameIdx(j)
                   /\ CloseIdx(j) < CloseIdx(PARENT_INDICES[j + 1])
              /\ IsLeaf(j) =>
                   \E e \in (OpenIdx(j) + 1)..(CloseIdx(j) - 4) :
                     /\ L[e].t = "End Site"
                     /\ L[e + 1].t = "{"
                     /\ L[e + 2].t = "OFFSET" /\ L[e + 2].vals = <<0, 0, 0>>
                     /\ L[e + 3].t = "}"
                     /\ depth[e] = depth[OpenIdx(j)] + 1

C11_Witness ==
    /\ exportCall.done /\ file.exists /\ exportCall.status = "ok"
    /\ Len(HierarchyBlock(file.lines)) > 100
    /\ \E i \in 1..Len(file.lines) : file.lines[i].t = "End Site" /\ file.lines[i].joint = 23
    /\ \E i \in 1..Len(file.lines) : file.lines[i].t = "JOINT" /\ file.lines[i].indent = 8

\* A processor with some target fps, a generator constructed and loaded, and
\* two generate calls about to be made on features the processor synced:
\* onset vector B is A, or A with one entry changed.
InitSynth ==
    /\ \E f \in TargetFpsValues :
         processor = AudioProcessorInit(f, DefaultSampleRate)
    /\ sync = SyncArgs(0, 0, 0, DefaultSampleRate, 512, 1)
    /\ gen = [g \in Gens |-> IF g = "g1" THEN load_model(DanceGeneratorInit(FALSE, FALSE, FALSE),
                                                          FALSE, FALSE).self
                             ELSE NoGen]
    /\ genCall = NoGenCall
    /\ exporter = NoExporter
    /\ file = NoFile
    /\ exportCall = ExportArgs(<<0, 24, 3>>, -1, TRUE, 0)
    /\ \E mel_cols \in 0..MaxSynthT, tempo \in Tempos, onsetA \in OnsetVectors :
         \/ synth = SynthArgs(mel_cols, tempo, onsetA, onsetA)
         \/ \E j \in 1..Len(onsetA), v \in OnsetValues :
              synth = SynthArgs(mel_cols, tempo, onsetA, [onsetA EXCEPT ![j] = v])
    /\ walk = NoWalk
    /\ app = NoApp

NextSynth == \E w \in {"A", "B"} : SynthGenerate(w)

SpecSynth == InitSynth /\ [][NextSynth]_vars

\* the two generate calls of SpecSynth have returned
BothGenerated == synth.result.A.made /\ synth.result.B.made

SynthFrames == 0..(synth.mel_cols - 1)

\* C12: two generate calls on the same loaded generator with identical
\* features return identical motions, and frame i of the result is decided
\* by i, the tempo and onset[i] alone: a change of another entry of onset,
\* hence of what the frames generated before i got, leaves its rotations and
\* root translation as they were.
C12_FramesAreIndependent ==
    BothGenerated =>
      /\ synth.onset.A = synth.onset.B => synth.result.A = synth.result.B
      /\ synth.result.A.status = "ok" /\ synth.result.B.status = "ok"
      /\ \A i \in SynthFrames :
           beat_intensity_of(synth.onset.A, i) = beat_intensity_of(synth.onset.B, i)
             => /\ synth.result.A.values.rotations[i] = synth.result.B.values.rotations[i]
                /\ synth.result.A.values.translations[i]
                     = synth.result.B.values.translations[i]

C12_Witness ==
    /\ BothGenerated /\ synth.mel_cols = 2
    /\ Len(synth.onset.A) = 2 /\ synth.onset.A[1] = 0 /\ synth.onset.B[1] = 6
    /\ synth.onset.A[2] = 6 /\ synth.onset.B[2] = 6
    /\ synth.result.A.values.rotations[0] # synth.result.B.values.rotations[0]
    /\ synth.result.A.values.rotations[1] = synth.result.B.values.rotations[1]

\* C13: the motion returned for features of T columns has num_frames = T,
\* T rows of rotations and of translations, and 24 joints of 3 angles in
\* every row, also when onset has fewer than T entries.
C13_FrameCountAndShape ==
    \A w \in {"A", "B"} :
      synth.result[w].made =>
        LET r == synth.result[w]
            T == synth.mel_cols
        IN /\ r.status = "ok"
           /\ r.motion.num_frames = T
           /\ r.motion.rotations = <<T, 24, 3>>
           /\ r.motion.translations = <<T, 3>>
           /\ DOMAIN r.values.rotations = 0..(T - 1)
           /\ DOMAIN r.values.translations = 0..(T - 1)
           /\ \A i \in 0..(T - 1) :
                /\ DOMAIN r.values.rotations[i] = 0..23
                /\ \A j \in 0..23 : DOMAIN r.values.rotations[i][j] = 0..2
                /\ DOMAIN r.values.translations[i] = 0..2

C13_Witness ==
    /\ synth.result.A.made /\ synth.mel_cols = 2 /\ Len(synth.onset.A) = 1
    /\ synth.result.A.motion.num_frames = 2
    /\ DOMAIN synth.result.A.values.rotations = 0..1

\* C14: in frame i every rotation value of every joint is its base value
\* times (1 + 0.2 * onset[i]) when onset[i] > 0.5, and its base value when
\* onset[i] <= 0.5 (at exactly 0.5 too); the base value is the same whatever
\* onset is; the root translation is never scaled.
C14_EmphasisIsUniform ==
    \A w \in {"A", "B"} :
      synth.result[w].made =>
        \A i \in SynthFrames :
          LET beat == beat_intensity_of(synth.onset[w], i)
              rot == synth.result[w].values.rotations[i]
              trans == synth.result[w].values.translations[i]
          IN /\ \A j \in 0..23, x \in 0..2 :
                  /\ rot[j][x].scale = IF beat > 5 THEN <<50 + beat, 50>> ELSE <<1, 1>>
                  /\ BothGenerated =>
                       rot[j][x].expr = synth.result.A.values.rotations[i][j][x].expr
             /\ \A x \in 0..2 : trans[x].scale = <<1, 1>>

C14_Witness ==
    /\ BothGenerated /\ synth.mel_cols = 2
    /\ synth.onset.A = <<6, 5>> /\ synth.onset.B = <<0, 5>>
    /\ synth.result.A.values.rotations[0][16][0].scale = <<56, 50>>
    /\ synth.result.A.values.rotations[1][16][0].scale = <<1, 1>>
    /\ synth.result.B.values.rotations[0][16][0].scale = <<1, 1>>

\* the cells rotations[i, j, x] the algorithm assigns: <<j, x>>
AssignedCells ==
    { <<3, 1>>, <<6, 1>>, <<16, 0>>, <<17, 0>>, <<16, 2>>, <<17, 2>>, <<18, 0>>,
      <<19, 0>>, <<1, 2>>, <<2, 2>> }

\* a cell whose value is 0: the expression 0, times any factor
IsZero(cell) == cell.expr.c = 0 /\ cell.expr.a = 0 /\ cell.scale[2] # 0

\* C15: in every generated frame, emphasized or not, every joint other than
\* 1, 2, 3, 6, 16, 17, 18, 19 has rotation (0, 0, 0), and of the listed
\* joints every axis the algorithm does not assign is 0.
C15_UnlistedJointsRest ==
    \A w \in {"A", "B"} :
      synth.result[w].made =>
        \A i \in SynthFrames :
          \A j \in 0..23, x \in 0..2 :
            /\ j \notin {1, 2, 3, 6, 16, 17, 18, 19}
                 => IsZero(synth.result[w].values.rotations[i][j][x])
            /\ <<j, x>> \notin AssignedCells
                 => IsZero(synth.result[w].values.rotations[i][j][x])

C15_Witness ==
    /\ synth.result.A.made /\ synth.mel_cols = 2 /\ synth.onset.A = <<6, 0>>
    /\ synth.result.A.values.rotations[0][12][1].scale = <<56, 50>>
    /\ IsZero(synth.result.A.values.rotations[0][12][1])
    /\ ~IsZero(synth.result.A.values.rotations[0][16][0])
    /\ IsZero(synth.result.A.values.rotations[1][16][1])

\* C16: frame i is computed at time t = i / fps, fps being the target fps of
\* the processor that synchronized the features, and the fps of the returned
\* motion is that rate, whatever target fps the processor has.
C16_TimeUsesSyncedFps ==
    \A w \in {"A", "B"} :
      synth.result[w].made =>
        /\ synth.result[w].motion.fps = processor.target_fps
        /\ \A i \in SynthFrames :
             /\ \A j \in 0..23, x \in 0..2 :
                  LET e == synth.result[w].values.rotations[i][j][x].expr
                  IN e.a # 0 => e.t = <<i, processor.target_fps>>
             /\ \A x \in 0..2 :
                  LET e == synth.result[w].values.translations[i][x].expr
                  IN e.a # 0 => e.t = <<i, processor.target_fps>>

\* _write_hierarchy about to be called.
InitWalk ==
    /\ processor = AudioProcessorInit(DefaultTargetFps, DefaultSampleRate)
    /\ sync = SyncArgs(0, 0, 0, DefaultSampleRate, 512, 1)
    /\ gen = [g \in Gens |-> NoGen]
    /\ genCall = NoGenCall
    /\ exporter = NoExporter
    /\ file = NoFile
    /\ exportCall = ExportArgs(<<0, 24, 3>>, -1, TRUE, 0)
    /\ synth = NoSynth
    /\ walk = NoWalk
    /\ app = NoApp

NextWalk ==
    \/ WalkStart
    \/ WalkWrite
    \/ WalkFindChildren
    \/ WalkCallChild
    \/ WalkLoopEnd
    \/ WalkReturn

\* The walk is one sequential call: it takes its next step as long as it has
\* one.
SpecWalk == InitWalk /\ [][NextWalk]_vars /\ WF_vars(NextWalk)

\* the lines the statement-by-statement walk has written are the first lines
\* of what _write_hierarchy writes as a whole, and all of them at its return
WalkWritesHierarchy ==
    /\ Len(walk.out) <= Len(write_hierarchy)
    /\ walk.out = SubSeq(write_hierarchy, 1, Len(walk.out))
    /\ walk.done => walk.out = write_hierarchy

\* the joints declared so far are in the order the claim requires
WalkOrder ==
    LET decl == SelectSeq(walk.out, LAMBDA l : l.t \in {"ROOT", "JOINT"})
        Pos(j) == CHOOSE p \in 1..Len(decl) : decl[p].joint = j
        Declared(j) == \E p \in 1..Len(decl) : decl[p].joint = j
    IN \* no joint twice
       /\ \A p, q \in 1..Len(decl) : decl[p].joint = decl[q].joint => p = q
       \* one ROOT, Pelvis, first; every other a JOINT
       /\ \A p \in 1..Len(decl) :
            /\ decl[p].t = "ROOT" <=> p = 1
            /\ decl[p].joint = 0 <=> p = 1
            /\ decl[p].vals = <<JOINT_NAMES[decl[p].joint + 1]>>
       /\ Len(decl) >= 1 => decl[1].vals = <<"Pelvis">>
       \* a parent before each of its children
       /\ \A p \in 2..Len(decl) :
            /\ Declared(PARENT_INDICES[decl[p].joint + 1])
            /\ Pos(PARENT_INDICES[decl[p].joint + 1]) < p
       \* the children of a joint in ascending index order
       /\ \A p, q \in 1..Len(decl) :
            (/\ PARENT_INDICES[decl[p].joint + 1] = PARENT_INDICES[decl[q].joint + 1]
             /\ decl[p].joint < decl[q].joint) => p < q
       \* all 24 once the walk has returned
       /\ walk.done => {decl[p].joint : p \in 1..Len(decl)} = 0..23

\* C17: the hierarchy writer emits each of the 24 joints exactly once, one
\* ROOT (Pelvis) first and every other as JOINT, a parent before each of its
\* children, the children of a joint in ascending index order, and the
\* recursive walk terminates.
C17_WalkOrderAndTermination == []WalkOrder /\ <>walk.done

C17_Witness ==
    /\ walk.done /\ walk.stack = <<>>
    /\ Len(SelectSeq(walk.out, LAMBDA l : l.t \in {"ROOT", "JOINT"})) = 24
    /\ Len(SelectSeq(walk.out, LAMBDA l : l.t = "ROOT")) = 1
    /\ walk.out[Len(walk.out) - 1].joint = 3

\* mel columns of the features of a request
MaxAppT == 1

\* A fresh server process with one generate request in each thread, both past
\* feature extraction.
InitApp ==
    /\ processor = AudioProcessorInit(DefaultTargetFps, DefaultSampleRate)
    /\ sync = SyncArgs(0, 0, 0, DefaultSampleRate, 512, 1)
    /\ gen = [g \in Gens |-> NoGen]
    /\ genCall = NoGenCall
    /\ exporter = NoExporter
    /\ file = NoFile
    /\ exportCall = ExportArgs(<<0, 24, 3>>, -1, TRUE, 0)
    /\ synth = NoSynth
    /\ walk = NoWalk
    /\ \E mel_cols \in [Threads -> 0..MaxAppT] : app = AppInit(mel_cols)

NextApp ==
    \E t \in Threads :
        \/ AppCheck(t)
        \/ AppConstruct(t)
        \/ AppLoadCall(t)
        \/ AppLoadBody(t)
        \/ AppReturn(t)
        \/ AppGenerate(t)

SpecApp == InitApp /\ [][NextApp]_vars

\* C18: with generate requests handled concurrently, every generator handle
\* get_generator has returned to a request has completed load_model, and no
\* request's generate call ends with the 'model not loaded' RuntimeError.
C18_ReturnedGeneratorIsLoaded ==
    \A t \in Threads :
        /\ app.pc[t] = "generate" =>
             /\ gen[app.generator[t]].load_returned
             /\ gen[app.generator[t]].loaded
        /\ app.status[t] # "RuntimeError"

====
